---------------------------- MODULE Spec2Model ----------------------------
(***************************************************************************)
(* Model of the greenhouse telemetry ingestion pipeline:                   *)
(*   edge/edge_processor.py  (to_float, on_connect, on_message, main)      *)
(*   storage/db.py           (SCHEMA_SQL, init_db, insert_telemetry)       *)
(*   visualize/multi_trend.py (fetch_rows, a concurrent reader)            *)
(*                                                                         *)
(* Numbers: a Python float is modelled by its value in tenths (49.9 is     *)
(* 499), so that the comparison with the threshold is exact; NaN and the   *)
(* infinities are separate values.  A JSON value is a record               *)
(* [k, n, s]: its kind, its number and its text.                           *)
(***************************************************************************)
EXTENDS Integers, Sequences, FiniteSets, TLC

(* ------------------------------ bounds -------------------------------- *)
\* messages the transport delivers in one run of the model
MaxMsgs == 3
\* messages waiting in the client's receive queue
MaxInbox == 2
\* calls of on_connect by the transport in one process life
MaxConnects == 2
\* process restarts against the same database file
MaxRestarts == 1
\* messages delivered in a run of SpecIngest
MaxIngestMsgs == 2
\* messages delivered in the runs with every read-side tool
MaxReadMsgs == 2
\* rows of the stores the live dashboard's counts are computed on
MaxDupRows == 4
\* data rows of the simulator's CSV file
MaxCsvRows == 2
\* the largest --max-rows of the simulator
MaxRowsArg == 2

(* ---------------------------- JSON values ----------------------------- *)
V(k, n, s) == [k |-> k, n |-> n, s |-> s]
\* dict.get on a key that is not there, and JSON null: both are Python None
None == V("none", 0, "")
Str(s) == V("str", 0, s)
\* a Python int (JSON number without fraction), n is its value
IntV(n) == V("int", n, "")
\* a finite Python float, n is its value in tenths
FloatV(n) == V("float", n, "")
Bool(b) == V("bool", IF b THEN 1 ELSE 0, "")
\* the JSON literals NaN, Infinity, -Infinity (json.loads accepts them)
NaN == V("nan", 0, "")
Inf == V("inf", 1, "")
NegInf == V("inf", -1, "")
\* an int too large for a double: float() raises OverflowError
BigInt == V("bigint", 0, "")
\* a JSON array / object with n members
List(n) == V("list", n, "")
Dict(n) == V("dict", n, "")

\* src/edge/edge_processor.py:11
METRIC_KEYS == <<"ACHP", "PHR", "AWWGV", "PDMRG">>
MetricNames == {METRIC_KEYS[i] : i \in 1..Len(METRIC_KEYS)}

\* Python truthiness of a value (the `not ts` of on_message)
Truthy(v) ==
  CASE v.k = "none" -> FALSE
    [] v.k = "str" -> v.s # ""
    [] v.k \in {"int", "float", "bool", "list", "dict"} -> v.n # 0
    [] OTHER -> TRUE

(* ------------------------- results and errors -------------------------- *)
Ok(v) == [ok |-> TRUE, v |-> v, err |-> ""]
Raise(e) == [ok |-> FALSE, v |-> None, err |-> e]

\* the texts of the exceptions on_message can catch
E_None == "value is None"
E_NaNInf == "value is NaN/Inf"
E_Missing == "missing ts/device_id/metrics"
E_Float == "could not convert to float"
E_Overflow == "int too large to convert to float"
E_Utf8 == "codec can't decode"
E_Json == "json decode error"
E_Attr == "object has no attribute 'get'"
E_Bind == "error binding parameter"
E_Locked == "database is locked"
E_NoTable == "no such table: telemetry"
L_Inserted == "[DB] Inserted"

\* float(s) of a str: Python strips blanks and reads nan/inf spellings
ParseFloat(s) ==
  CASE s = "51.2" -> Ok(FloatV(512))
    [] s = " 49.9 " -> Ok(FloatV(499))
    [] s = "nan" -> Ok(NaN)
    [] s = "-inf" -> Ok(NegInf)
    [] s = "1e999" -> Ok(Inf)
    [] OTHER -> Raise(E_Float)

\* the builtin float(x)
PyFloat(x) ==
  CASE x.k = "float" -> Ok(x)
    [] x.k = "int" -> Ok(FloatV(10 * x.n))
    [] x.k = "bool" -> Ok(FloatV(10 * x.n))
    [] x.k \in {"nan", "inf"} -> Ok(x)
    [] x.k = "str" -> ParseFloat(x.s)
    [] x.k = "bigint" -> Raise(E_Overflow)
    [] OTHER -> Raise(E_Float)

\* to_float without the isnan/isinf test
to_float_unchecked(x) ==
  IF x.k = "none" THEN Raise(E_None) ELSE PyFloat(x)
\* to_float that takes only float instances
to_float_strict(x) ==
  IF x.k = "float" THEN Ok(x) ELSE Raise(E_Float)

\* to_float: None, NaN and the infinities raise ValueError
to_float(x) ==
  IF x.k = "none" THEN Raise(E_None)
  ELSE LET r == PyFloat(x) IN
       IF ~r.ok THEN r
       ELSE IF r.v.k \in {"nan", "inf"} THEN Raise(E_NaNInf)
       ELSE r


(* ------------------------------ payloads ------------------------------ *)
\* a key that the JSON object does not have
Absent == V("absent", 0, "")
\* dict.get(key): None when the key is absent
Get(v) == IF v.k = "absent" THEN None ELSE v
\* dict.get(key, default)
GetDefault(v, d) == IF v.k = "absent" THEN d ELSE v

T1 == "2025-01-01T00:00:00Z"
T2 == "2025-01-01T00:00:01Z"
D1 == "gh_01"
D2 == "gh_02"

\* A message payload: enc is whether the bytes are UTF-8, top the kind of the
\* JSON text's top-level value, then the members of the object.  m gives the
\* members of metrics when it is an object.
Obj(ts, dev, metrics, m) ==
  [enc |-> "utf8", top |-> "object", ts |-> ts, device_id |-> dev,
   metrics |-> metrics, m |-> m]
AllMetrics(v) == [k \in MetricNames |-> v]
NoMetrics == AllMetrics(Absent)
\* the scenario of the specification, with ACHP = a
Base(a) == Obj(Str(T1), Str(D1), Dict(4), [AllMetrics(IntV(1)) EXCEPT !["ACHP"] = a])
BadUtf8 == [Base(FloatV(499)) EXCEPT !.enc = "bad"]
BadJson == [Base(FloatV(499)) EXCEPT !.top = "badjson"]
TopList == [Base(FloatV(499)) EXCEPT !.top = "list"]

AchpValues ==
  {FloatV(499), FloatV(500), FloatV(512), Str("51.2"), Str(" 49.9 "),
   Str("not-a-number"), Str("nan"), NaN, Inf, Bool(TRUE), None, Absent,
   BigInt, List(0)}
TsValues == {Absent, None, Str(""), Str(T2), IntV(5), NaN, List(1)}
DeviceValues == {Absent, Str(""), Str(D2), IntV(7)}
MetricsValues == {Absent, None, List(0)}

Payloads ==
  {BadUtf8, BadJson, TopList}
  \cup {Base(a) : a \in AchpValues}
  \cup {[Base(FloatV(499)) EXCEPT !.ts = t] : t \in TsValues}
  \cup {[Base(FloatV(512)) EXCEPT !.device_id = d] : d \in DeviceValues}
  \cup {Obj(Str(T1), Str(D1), x, NoMetrics) : x \in MetricsValues}
  \cup {Obj(Str(T1), Str(D1), Dict(0), NoMetrics)}
  \cup {[Base(FloatV(499)) EXCEPT !.m["PHR"] = Str("abc")],
        [Base(FloatV(512)) EXCEPT !.m["AWWGV"] = NaN],
        [Base(FloatV(499)) EXCEPT !.m["PDMRG"] = Absent],
        Obj(Str(T1), Str(D1), Dict(4),
            [ACHP |-> FloatV(512), PHR |-> FloatV(30), AWWGV |-> FloatV(5),
             PDMRG |-> IntV(10)])}

\* the payloads of the runs with a reader and restarts: accepted ones that
\* differ in ts, device and ACHP, one that validation rejects and one that
\* sqlite3 cannot bind
CorePayloads ==
  {Base(FloatV(500)),
   [Base(FloatV(500)) EXCEPT !.ts = Str(T2)],
   [Base(FloatV(512)) EXCEPT !.device_id = Str(D2)],
   [Base(FloatV(500)) EXCEPT !.ts = List(1)],
   [Base(FloatV(500)) EXCEPT !.m["PHR"] = Str("abc")]}

\* --achp-threshold, default 50.0 (src/edge/edge_processor.py:84)
DefaultThreshold == 500
\* the values of --achp-threshold in the model: the default and 49.9
Thresholds == {DefaultThreshold, 499}

(* ------------------- on_message, up to the insert ---------------------- *)
\* the payload decoded with errors="ignore": bad bytes are dropped
decode_ignore(p) ==
  IF p.top = "badjson" THEN E_Json
  ELSE IF p.top # "object" THEN E_Attr
  ELSE ""

\* msg.payload.decode("utf-8") and json.loads(raw), then data.get: the
\* exception raised before any field is read, or "" when there is none
decode(p) ==
  IF p.enc # "utf8" THEN E_Utf8
  ELSE IF p.top = "badjson" THEN E_Json
  ELSE IF p.top # "object" THEN E_Attr
  ELSE ""

\* metrics.get(key) of on_message, metrics being a dict
MetricGet(metrics, m, key) == IF metrics.k = "dict" THEN Get(m[key]) ELSE None

\* only ACHP is coerced before the insert
RECURSIVE FirstBad_achp_only(_, _, _)
FirstBad_achp_only(metrics, m, i) ==
  IF i > 1 THEN 0
  ELSE IF ~to_float(MetricGet(metrics, m, METRIC_KEYS[i])).ok THEN i
  ELSE FirstBad_achp_only(metrics, m, i + 1)

\* the first of the four to_float calls that raises, in the order of the
\* code (ACHP, PHR, AWWGV, PDMRG); 0 when none does
RECURSIVE FirstBad(_, _, _)
FirstBad(metrics, m, i) ==
  IF i > Len(METRIC_KEYS) THEN 0
  ELSE IF ~to_float(MetricGet(metrics, m, METRIC_KEYS[i])).ok THEN i
  ELSE FirstBad(metrics, m, i + 1)

\* Python's x > t of a float x and a finite t (t in tenths): a NaN is
\* greater than nothing, an infinity by its sign
Greater(x, t) ==
  CASE x.k = "float" -> x.n > t
    [] x.k = "inf" -> x.n > 0
    [] OTHER -> FALSE

\* the rule with >= in place of >
classify_ge(achp, threshold_) ==
  IF Greater(achp, threshold_) \/ achp = FloatV(threshold_) THEN 1 ELSE 0
\* the anomaly rule: 1 if achp > threshold else 0
classify(achp, threshold) == IF Greater(achp, threshold) THEN 1 ELSE 0

\* on_message with a rule of two metrics: ACHP above the threshold and PHR
\* above 2.0
preprocess_two_metrics(p, threshold) ==
  IF decode(p) # "" THEN [ok |-> FALSE, err |-> decode(p)]
  ELSE
    LET ts == Get(p.ts)
        device_id == Get(p.device_id)
        metrics == GetDefault(p.metrics, Dict(0))
        bad == FirstBad(metrics, p.m, 1)
        f(key) == to_float(MetricGet(metrics, p.m, key)).v
    IN IF ~Truthy(ts) \/ ~Truthy(device_id) \/ metrics.k # "dict"
         THEN [ok |-> FALSE, err |-> E_Missing]
       ELSE IF bad # 0
         THEN [ok |-> FALSE,
               err |-> to_float(MetricGet(metrics, p.m, METRIC_KEYS[bad])).err]
       ELSE [ok |-> TRUE, err |-> "",
             args |-> [ts |-> ts, device_id |-> device_id,
                       achp |-> f("ACHP"), phr |-> f("PHR"),
                       awwgv |-> f("AWWGV"), pdmrg |-> f("PDMRG"),
                       is_anomaly |-> IF Greater(f("PHR"), 20)
                                        THEN classify(f("ACHP"), threshold)
                                        ELSE 0]]

\* lines 39-58 of on_message: the arguments of insert_telemetry, or the
\* exception that the except clause catches
preprocess(p, threshold) ==
  IF decode(p) # "" THEN [ok |-> FALSE, err |-> decode(p)]
  ELSE
    LET ts == Get(p.ts)
        device_id == Get(p.device_id)
        metrics == GetDefault(p.metrics, Dict(0))
        bad == FirstBad(metrics, p.m, 1)
        f(key) == to_float(MetricGet(metrics, p.m, key)).v
    IN IF ~Truthy(ts) \/ ~Truthy(device_id) \/ metrics.k # "dict"
         THEN [ok |-> FALSE, err |-> E_Missing]
       ELSE IF bad # 0
         THEN [ok |-> FALSE,
               err |-> to_float(MetricGet(metrics, p.m, METRIC_KEYS[bad])).err]
       ELSE [ok |-> TRUE, err |-> "",
             args |-> [ts |-> ts, device_id |-> device_id,
                       achp |-> f("ACHP"), phr |-> f("PHR"),
                       awwgv |-> f("AWWGV"), pdmrg |-> f("PDMRG"),
                       is_anomaly |-> classify(f("ACHP"), threshold)]]


(* ------------------------------ the store ------------------------------ *)
\* str(n) of a small int, as SQLite's TEXT affinity stores a bound integer
IntText(n) ==
  CASE n = 0 -> "0" [] n = 1 -> "1" [] n = 2 -> "2" [] n = 3 -> "3"
    [] n = 4 -> "4" [] n = 5 -> "5" [] n = 6 -> "6" [] n = 7 -> "7"
    [] n = 8 -> "8" [] n = 9 -> "9" [] OTHER -> "int"

\* Binding a Python value to a parameter of a TEXT column (ts, device_id):
\* str is stored as it is, a number as its text, a NaN as NULL; sqlite3
\* refuses lists, dicts and ints beyond 64 bits
BindText(v) ==
  CASE v.k = "str" -> Ok(v)
    [] v.k \in {"int", "bool"} -> Ok(Str(IntText(v.n)))
    [] v.k = "float" -> Ok(Str("float"))
    [] v.k = "inf" -> Ok(Str("Inf"))
    [] v.k \in {"nan", "none"} -> Ok(None)
    [] OTHER -> Raise(E_Bind)

\* Binding a Python float to a parameter of a REAL column: SQLite stores a
\* NaN as NULL
BindReal(v) == IF v.k = "float" \/ v.k = "inf" THEN v ELSE None

\* The table has no INTEGER PRIMARY KEY and is not WITHOUT ROWID
\* (SCHEMA_SQL): SQLite gives a new row the rowid max(rowid) + 1
MaxRowid(rows) ==
  IF rows = <<>> THEN 0
  ELSE LET ids == {rows[i].rowid : i \in 1..Len(rows)}
       IN CHOOSE x \in ids : \A y \in ids : y <= x
NewRowid(rows) == MaxRowid(rows) + 1

\* the INSERT with phr and awwgv in each other's place
InsertRow_swapped(schema_, rows, a) ==
  IF "telemetry" \notin schema_ THEN [ok |-> FALSE, err |-> E_NoTable]
  ELSE IF ~BindText(a.ts).ok THEN [ok |-> FALSE, err |-> E_Bind]
  ELSE IF ~BindText(a.device_id).ok THEN [ok |-> FALSE, err |-> E_Bind]
  ELSE [ok |-> TRUE, err |-> "",
        row |-> [rowid |-> NewRowid(rows),
                 ts |-> BindText(a.ts).v, device_id |-> BindText(a.device_id).v,
                 achp |-> BindReal(a.achp), phr |-> BindReal(a.awwgv),
                 awwgv |-> BindReal(a.phr), pdmrg |-> BindReal(a.pdmrg),
                 is_anomaly |-> a.is_anomaly]]
\* the INSERT into a table declared with UNIQUE (device_id, ts)
InsertRow_unique(schema_, rows, a) ==
  IF "telemetry" \notin schema_ THEN [ok |-> FALSE, err |-> E_NoTable]
  ELSE IF ~BindText(a.ts).ok THEN [ok |-> FALSE, err |-> E_Bind]
  ELSE IF ~BindText(a.device_id).ok THEN [ok |-> FALSE, err |-> E_Bind]
  ELSE IF \E i \in 1..Len(rows) :
            /\ rows[i].ts = BindText(a.ts).v
            /\ rows[i].device_id = BindText(a.device_id).v
    THEN [ok |-> FALSE, err |-> "UNIQUE constraint failed"]
  ELSE [ok |-> TRUE, err |-> "",
        row |-> [rowid |-> NewRowid(rows),
                 ts |-> BindText(a.ts).v, device_id |-> BindText(a.device_id).v,
                 achp |-> BindReal(a.achp), phr |-> BindReal(a.phr),
                 awwgv |-> BindReal(a.awwgv), pdmrg |-> BindReal(a.pdmrg),
                 is_anomaly |-> a.is_anomaly]]

\* The INSERT statement of insert_telemetry: the row it adds to the
\* transaction, or the exception it raises
InsertRow(schema_, rows, a) ==
  IF "telemetry" \notin schema_ THEN [ok |-> FALSE, err |-> E_NoTable]
  ELSE IF ~BindText(a.ts).ok THEN [ok |-> FALSE, err |-> E_Bind]
  ELSE IF ~BindText(a.device_id).ok THEN [ok |-> FALSE, err |-> E_Bind]
  ELSE [ok |-> TRUE, err |-> "",
        row |-> [rowid |-> NewRowid(rows),
                 ts |-> BindText(a.ts).v, device_id |-> BindText(a.device_id).v,
                 achp |-> BindReal(a.achp), phr |-> BindReal(a.phr),
                 awwgv |-> BindReal(a.awwgv), pdmrg |-> BindReal(a.pdmrg),
                 is_anomaly |-> a.is_anomaly]]

\* CREATE TABLE without IF NOT EXISTS: an error when the table is there
CreateTable_strict(schema_) ==
  [ok |-> "telemetry" \notin schema_, schema |-> schema_ \cup {"telemetry"}]

\* conn.execute(SCHEMA_SQL): CREATE TABLE IF NOT EXISTS telemetry adds the
\* table when it is not there and does nothing, without an error, when it is
CreateTable(schema_) ==
  [ok |-> TRUE, schema |-> schema_ \cup {"telemetry"}]

(* ------------------------- fetch_rows (reader) ------------------------- *)
\* SQLite's order of the stored ts values: NULL first, then text bytewise
TextRank(v) ==
  CASE v.k = "none" -> 0
    [] v.s = T1 -> 1
    [] v.s = T2 -> 2
    [] v.s = "5" -> 3
    [] OTHER -> 4
\* ORDER BY ts ASC, rowid ASC
RowLess(r1, r2) ==
  \/ TextRank(r1.ts) < TextRank(r2.ts)
  \/ TextRank(r1.ts) = TextRank(r2.ts) /\ r1.rowid < r2.rowid

\* the indices 1..Len(rows) of a sequence in descending order of RowLess
RECURSIVE SortDesc(_, _)
SortDesc(rows, idx) ==
  IF idx = {} THEN <<>>
  ELSE LET top == CHOOSE i \in idx :
                    \A j \in idx : ~RowLess(rows[i], rows[j]) \/ i = j
       IN <<rows[top]>> \o SortDesc(rows, idx \ {top})
RECURSIVE SortAsc(_, _)
SortAsc(rows, idx) ==
  IF idx = {} THEN <<>>
  ELSE LET low == CHOOSE i \in idx :
                    \A j \in idx : ~RowLess(rows[j], rows[i]) \/ i = j
       IN <<rows[low]>> \o SortAsc(rows, idx \ {low})
Limit(rows, n) == IF Len(rows) <= n THEN rows ELSE SubSeq(rows, 1, n)

\* fetch_rows without the outer ORDER BY: the rows newest first
FetchOrder_inner_only(rows, device_id, limit) ==
  LET mine == {i \in 1..Len(rows) : rows[i].device_id = Str(device_id)}
  IN Limit(SortDesc(rows, mine), limit)

\* SELECT ... FROM (SELECT ... WHERE device_id = ? ORDER BY ts DESC, rowid DESC
\* LIMIT ?) ORDER BY ts ASC, rowid ASC: the rows selected, in the order of
\* the result
FetchOrder(rows, device_id, limit) ==
  LET mine == {i \in 1..Len(rows) : rows[i].device_id = Str(device_id)}
      inner == Limit(SortDesc(rows, mine), limit)
  IN SortAsc(inner, 1..Len(inner))
\* the columns of the outer SELECT
fetch_rows(rows, device_id, limit) ==
  LET r == FetchOrder(rows, device_id, limit)
  IN [i \in 1..Len(r) |->
        [ts |-> r[i].ts, achp |-> r[i].achp, phr |-> r[i].phr,
         awwgv |-> r[i].awwgv, pdmrg |-> r[i].pdmrg,
         is_anomaly |-> r[i].is_anomaly]]

(* ---------------------- the other read-side tools ---------------------- *)
\* the rows of one device; the web dashboard and anomaly_summary also read
\* every device at once
AllDevices == "(all)"
Mine(rows, device_id) ==
  {i \in 1..Len(rows) :
     device_id = AllDevices \/ rows[i].device_id = Str(device_id)}
\* the columns a SELECT names
Columns(r, cols) == [c \in cols |-> r[c]]
Project(rows, cols) == [i \in 1..Len(rows) |-> Columns(rows[i], cols)]
Reverse(rows) == [i \in 1..Len(rows) |-> rows[Len(rows) + 1 - i]]

\* live_dashboard.fetch_snapshot: SELECT COUNT(*) ... WHERE device_id=?
total_rows(rows, device_id) == Cardinality(Mine(rows, device_id))
\* ... AND is_anomaly=1
anomaly_rows(rows, device_id) ==
  Cardinality({i \in Mine(rows, device_id) : rows[i].is_anomaly = 1})
\* SELECT ts ... ORDER BY ts DESC, rowid DESC LIMIT 1, None when no row
last_ts(rows, device_id) ==
  LET r == Limit(SortDesc(rows, Mine(rows, device_id)), 1)
  IN IF r = <<>> THEN None ELSE r[1].ts
RECURSIVE SumExtra(_, _, _)
SumExtra(rows, mine, tss) ==
  IF tss = {} THEN 0
  ELSE LET t == CHOOSE x \in tss : TRUE
           c == Cardinality({i \in mine : rows[i].ts = t})
       IN (IF c > 1 THEN c - 1 ELSE 0) + SumExtra(rows, mine, tss \ {t})
\* SUM(c) in the place of SUM(c-1): the rows of the repeated ts
dup_ts_count_rows(rows, device_id) ==
  LET mine == Mine(rows, device_id)
  IN Cardinality({i \in mine :
                    \E j \in mine : j # i /\ rows[j].ts = rows[i].ts})

\* SELECT COALESCE(SUM(c-1), 0) FROM (SELECT ts, COUNT(*) c ... GROUP BY ts
\* HAVING c > 1)
dup_ts_count(rows, device_id) ==
  LET mine == Mine(rows, device_id)
  IN SumExtra(rows, mine, {rows[i].ts : i \in mine})
\* SELECT ts, achp, phr, awwgv, pdmrg, is_anomaly ... ORDER BY ts DESC,
\* rowid DESC LIMIT ?
last_rows(rows, device_id, last_n) ==
  Project(Limit(SortDesc(rows, Mine(rows, device_id)), last_n),
          {"ts", "achp", "phr", "awwgv", "pdmrg", "is_anomaly"})
\* SELECT ts, achp, phr, awwgv, pdmrg ... AND is_anomaly=1 ORDER BY ts DESC,
\* rowid DESC LIMIT ?
anomaly_rows_list(rows, device_id, anomalies_n) ==
  LET a == {i \in Mine(rows, device_id) : rows[i].is_anomaly = 1}
  IN Project(Limit(SortDesc(rows, a), anomalies_n),
             {"ts", "achp", "phr", "awwgv", "pdmrg"})

\* plot.fetch_last_rows.  With dedup_ts the inner SELECT keeps MAX(rowid) of
\* each ts, newest ts first up to the limit, and the JOIN on t.ts = x.ts
\* drops a NULL ts; without it the query is that of fetch_rows.  Both list
\* the rows ORDER BY ts ASC, rowid ASC.
fetch_last_rows(rows, device_id, limit, dedup_ts) ==
  LET mine == Mine(rows, device_id)
      newest == {i \in mine :
                   \A j \in mine :
                     rows[j].ts = rows[i].ts => rows[j].rowid <= rows[i].rowid}
      x == Limit(SortDesc(rows, newest), limit)
      joined == SelectSeq(x, LAMBDA r : r.ts # None)
      r == IF dedup_ts THEN SortAsc(joined, 1..Len(joined))
           ELSE FetchOrder(rows, device_id, limit)
  IN Project(r, {"ts", "achp", "is_anomaly"})

\* the orders ORDER BY ts DESC allows: rows of one ts come in any order
RECURSIVE TsDescOrders(_, _)
TsDescOrders(rows, idx) ==
  IF idx = {} THEN {<<>>}
  ELSE UNION {{<<rows[i]>> \o rest : rest \in TsDescOrders(rows, idx \ {i})} :
                i \in {k \in idx : \A j \in idx :
                         TextRank(rows[j].ts) <= TextRank(rows[k].ts)}}
\* pd.to_datetime(..., errors="coerce"): the instant, NaT when unparsable
DateRank(v) ==
  CASE v = Str(T1) -> 1
    [] v = Str(T2) -> 2
    [] OTHER -> 3
\* the orders df.sort_values("_ts_utc") allows (quicksort, not stable; NaT
\* last)
RECURSIVE DateAscOrders(_, _)
DateAscOrders(rows, idx) ==
  IF idx = {} THEN {<<>>}
  ELSE UNION {{<<rows[i]>> \o rest : rest \in DateAscOrders(rows, idx \ {i})} :
                i \in {k \in idx : \A j \in idx :
                         DateRank(rows[k].ts) <= DateRank(rows[j].ts)}}
\* web_dashboard.load_from_db on the telemetry table, which has no id column:
\* SELECT ... ORDER BY ts DESC LIMIT ?, reversed, then sorted by _ts_utc.
\* The set of the frames it can return.
load_from_db(rows, device, limit) ==
  LET cols == {"ts", "device_id", "achp", "phr", "awwgv", "pdmrg", "is_anomaly"}
      got == {Reverse(Limit(r, limit)) : r \in TsDescOrders(rows, Mine(rows, device))}
  IN UNION {{Project(f, cols) : f \in DateAscOrders(g, 1..Len(g))} : g \in got}

\* anomaly_summary.main: the counts and the first and last anomaly ts
anomaly_summary(rows, device_id) ==
  LET a == {i \in Mine(rows, device_id) : rows[i].is_anomaly = 1}
      desc == SortDesc(rows, a)
  IN [total |-> total_rows(rows, device_id),
      anomalies |-> Cardinality(a),
      first_anom |-> IF a = {} THEN None ELSE desc[Len(desc)].ts,
      last_anom |-> IF a = {} THEN None ELSE desc[1].ts]

(* ------------------------------- state --------------------------------- *)
VARIABLES
  pc,         \* main: "start", "ready" (init_db done), "loop", "exit"
  threshold,  \* userdata["achp_threshold"]
  ctrl,       \* "Disconnected" or "Connected" (subscribed)
  connects,   \* on_connect calls in this process life
  rc,         \* the reason code of the last on_connect call, -1 before it
  inbox,      \* messages received and not yet handed to on_message
  delivered,  \* messages delivered so far; a message's number
  hpc,        \* on_message: "idle", "insert" (before INSERT), "commit",
              \* "committing" (conn.commit() waits for or holds the lock)
  cur,        \* the message on_message is handling
  schema,     \* the tables of the database file
  store,      \* the committed rows of telemetry, in the order of insertion
  pending,    \* the rows of the writer's open transaction
  reader,     \* a read-side tool: "idle" or "reading" (holds a shared lock)
  view,       \* the rows the reader's SELECT returned
  query,      \* the tool that is reading and its arguments
  lpc,        \* the live dashboard: "sleep" or "fetch" (in fetch_snapshot)
  panel,      \* what the live dashboard shows
  sim,        \* the simulator: its arguments, rows_cache, idx, sent, and pc:
              \* "off", "run" (at the while), "row" (a row taken), "done"
  published,  \* the payloads the simulator has published
  log,        \* the lines printed by on_message
  restarts    \* process restarts so far

vars == <<pc, threshold, ctrl, connects, rc, inbox, delivered, hpc, cur, schema,
          store, pending, reader, view, query, lpc, panel, sim, published,
          log, restarts>>

NoMsg == [no |-> 0]
NoQuery == [tool |-> "none"]
NoPanel == [kind |-> "none"]
\* the simulator is not running
SimOff == [pc |-> "off"]
Devices == {D1, D2}
Limits == {1, MaxMsgs}
\* reason codes of on_connect: 0 is success, 5 is "not authorized"
ReasonCodes == {0, 5}

Init ==
  /\ pc = "start"
  /\ threshold \in Thresholds
  /\ ctrl = "Disconnected"
  /\ connects = 0
  /\ rc = -1
  /\ inbox = <<>>
  /\ delivered = 0
  /\ hpc = "idle"
  /\ cur = NoMsg
  /\ schema = {}
  /\ store = <<>>
  /\ pending = <<>>
  /\ reader = "idle"
  /\ view = <<>>
  /\ query = NoQuery
  /\ lpc = "sleep"
  /\ panel = NoPanel
  /\ sim = SimOff
  /\ published = <<>>
  /\ log = <<>>
  /\ restarts = 0

dbVars == <<schema, store, pending>>
readerVars == <<reader, view, query, lpc, panel>>
simVars == <<sim, published>>
mainVars == <<pc, threshold, ctrl, connects, rc, restarts>>
msgVars == <<inbox, delivered, hpc, cur, log>>

(* ------------------------------- main ---------------------------------- *)
\* init_db that drops the table before it creates it
init_db_recreate ==
  /\ pc = "start"
  /\ schema' = {"telemetry"}
  /\ store' = <<>>
  /\ pc' = "ready"
  /\ UNCHANGED <<pending, threshold, ctrl, connects, rc, restarts>>
  /\ UNCHANGED <<inbox, delivered, hpc, cur, log, readerVars>>
  /\ UNCHANGED simVars

\* init_db(args.db): mkdir, CREATE TABLE IF NOT EXISTS, commit
init_db ==
  /\ pc = "start"
  /\ LET r == CreateTable(schema)
     IN /\ schema' = r.schema
        /\ pc' = IF r.ok THEN "ready" ELSE "exit"
  /\ UNCHANGED <<store, pending, threshold, ctrl, connects, rc, restarts>>
  /\ UNCHANGED <<msgVars, readerVars>>
  /\ UNCHANGED simVars

\* main that connects before init_db has run
main_connect_first ==
  /\ pc \in {"start", "ready"}
  /\ \E reached \in BOOLEAN : pc' = IF reached THEN "loop" ELSE "exit"
  /\ UNCHANGED <<threshold, ctrl, connects, rc, restarts>>
  /\ UNCHANGED <<msgVars, dbVars, readerVars>>
  /\ UNCHANGED simVars

\* client.connect(host, port): it raises when the broker cannot be reached
\* and main ends; otherwise loop_forever runs the callbacks
main_connect ==
  /\ pc = "ready"
  /\ \E reached \in BOOLEAN : pc' = IF reached THEN "loop" ELSE "exit"
  /\ UNCHANGED <<threshold, ctrl, connects, rc, restarts>>
  /\ UNCHANGED <<msgVars, dbVars, readerVars>>
  /\ UNCHANGED simVars

\* on_connect that subscribes whatever the reason code is
on_connect_always(reason_code) ==
  /\ pc = "loop"
  /\ ctrl = "Disconnected"
  /\ connects < MaxConnects
  /\ connects' = connects + 1
  /\ rc' = reason_code
  /\ ctrl' = "Connected"
  /\ UNCHANGED <<pc, threshold, restarts>>
  /\ UNCHANGED <<inbox, delivered, hpc, cur, log, schema, store, pending>>
  /\ UNCHANGED readerVars
  /\ UNCHANGED simVars

\* on_connect: subscribe when the reason code is 0
on_connect(reason_code) ==
  /\ pc = "loop"
  /\ ctrl = "Disconnected"
  /\ connects < MaxConnects
  /\ connects' = connects + 1
  /\ rc' = reason_code
  /\ ctrl' = IF reason_code = 0 THEN "Connected" ELSE "Disconnected"
  /\ UNCHANGED <<pc, threshold, restarts>>
  /\ UNCHANGED <<msgVars, dbVars, readerVars>>
  /\ UNCHANGED simVars

\* the transport delivers a message of the subscribed topic
Deliver(p) ==
  /\ pc = "loop"
  /\ ctrl = "Connected"
  /\ delivered < MaxMsgs
  /\ Len(inbox) < MaxInbox
  /\ delivered' = delivered + 1
  /\ inbox' = Append(inbox, [no |-> delivered + 1, p |-> p])
  /\ UNCHANGED <<hpc, cur, log>>
  /\ UNCHANGED <<mainVars, dbVars, readerVars>>
  /\ UNCHANGED simVars

(* ----------------------------- on_message ------------------------------ *)
Warn(no, e) == [no |-> no, level |-> "WARN", text |-> e]
\* whether a word occurs in the text of an exception: the texts of to_float
\* and of float() carry the value at most, never the key of the metric
Mentions(text, word) ==
  text = E_Missing /\ word \in {"ts", "device_id", "metrics"}
Info(no) == [no |-> no, level |-> "DB", text |-> L_Inserted]

\* the newest message first
NextMessage_newest(q) == Len(q)
\* the message loop_forever hands to on_message next: the oldest one
NextMessage(q) == 1

\* on_message, lines 36-58: decode, validate, coerce, classify.  An
\* exception is caught by the except clause, which prints the skip line.
on_message_begin ==
  /\ pc = "loop"
  /\ hpc = "idle"
  /\ inbox # <<>>
  /\ LET i == NextMessage(inbox)
         msg == inbox[i]
         r == preprocess(msg.p, threshold)
     IN /\ inbox' = [j \in 1..(Len(inbox) - 1) |->
                       IF j < i THEN inbox[j] ELSE inbox[j + 1]]
        /\ IF r.ok
             THEN /\ hpc' = "insert"
                  /\ cur' = [no |-> msg.no, p |-> msg.p, args |-> r.args]
                  /\ log' = log
             ELSE /\ hpc' = "idle"
                  /\ cur' = NoMsg
                  /\ log' = Append(log, Warn(msg.no, r.err))
  /\ UNCHANGED delivered
  /\ UNCHANGED <<mainVars, dbVars, readerVars>>
  /\ UNCHANGED simVars

\* insert_telemetry, lines 42-50: connect and execute the INSERT, which
\* opens the writer's transaction
insert_execute ==
  /\ hpc = "insert"
  /\ LET r == InsertRow(schema, store, cur.args)
     IN IF r.ok
          THEN /\ pending' = <<r.row>>
               /\ hpc' = "commit"
               /\ UNCHANGED <<cur, log>>
          ELSE /\ pending' = <<>>
               /\ hpc' = "idle"
               /\ cur' = NoMsg
               /\ log' = Append(log, Warn(cur.no, r.err))
  /\ UNCHANGED <<inbox, delivered, schema, store>>
  /\ UNCHANGED <<mainVars, readerVars>>
  /\ UNCHANGED simVars

\* insert_commit under "except ValueError": the sqlite3 error leaves
\* on_message and loop_forever, and main ends
insert_commit_uncaught ==
  /\ hpc = "commit"
  /\ IF reader = "reading"
       THEN /\ store' = store
            /\ log' = log
            /\ pc' = "exit"
            /\ ctrl' = "Disconnected"
       ELSE /\ store' = store \o pending
            /\ log' = Append(log, [no |-> cur.no, level |-> "DB", text |-> L_Inserted])
            /\ UNCHANGED <<pc, ctrl>>
  /\ pending' = <<>>
  /\ hpc' = "idle"
  /\ cur' = [no |-> 0]
  /\ UNCHANGED <<inbox, delivered, schema, threshold, connects, rc, restarts>>
  /\ UNCHANGED readerVars
  /\ UNCHANGED simVars

\* on_message with the print of line 71 moved before insert_telemetry
insert_commit_print_first ==
  /\ hpc = "commit"
  /\ IF reader = "reading"
       THEN /\ store' = store
            /\ log' = log \o <<Info(cur.no), Warn(cur.no, E_Locked)>>
       ELSE /\ store' = store \o pending
            /\ log' = Append(log, Info(cur.no))
  /\ pending' = <<>>
  /\ hpc' = "idle"
  /\ cur' = NoMsg
  /\ UNCHANGED <<inbox, delivered, schema>>
  /\ UNCHANGED <<mainVars, readerVars>>
  /\ UNCHANGED simVars

\* conn.commit() (line 51) and the print of line 71.  The commit needs the
\* exclusive lock: while a reader holds its shared lock past the timeout
\* of sqlite3.connect, it raises "database is locked" and the transaction
\* is rolled back.
insert_commit ==
  /\ hpc = "commit"
  /\ IF reader = "reading"
       THEN /\ store' = store
            /\ log' = Append(log, Warn(cur.no, E_Locked))
       ELSE /\ store' = store \o pending
            /\ log' = Append(log, Info(cur.no))
  /\ pending' = <<>>
  /\ hpc' = "idle"
  /\ cur' = NoMsg
  /\ UNCHANGED <<inbox, delivered, schema>>
  /\ UNCHANGED <<mainVars, readerVars>>
  /\ UNCHANGED simVars

(* ------------------------------- reader -------------------------------- *)
\* fetch_rows of a read-side tool, running in another process: it sees the
\* committed rows only
reader_fetch(d, n) ==
  /\ reader = "idle"
  /\ "telemetry" \in schema
  /\ reader' = "reading"
  /\ view' = fetch_rows(store, d, n)
  /\ UNCHANGED <<query, lpc, panel>>
  /\ UNCHANGED <<mainVars, msgVars, dbVars>>
  /\ UNCHANGED simVars

reader_close ==
  /\ reader = "reading"
  /\ reader' = "idle"
  /\ view' = <<>>
  /\ query' = NoQuery
  /\ UNCHANGED <<lpc, panel>>
  /\ UNCHANGED <<mainVars, msgVars, dbVars>>
  /\ UNCHANGED simVars

(* ------------------------------ restart -------------------------------- *)
\* The process is stopped from outside and python runs main() again on the
\* same database file: an open transaction is rolled back, the messages
\* not yet handled are lost.
restart ==
  /\ restarts < MaxRestarts
  /\ pc \in {"loop", "exit"}
  /\ restarts' = restarts + 1
  /\ pc' = "start"
  /\ threshold' \in Thresholds
  /\ ctrl' = "Disconnected"
  /\ connects' = 0
  /\ rc' = -1
  /\ inbox' = <<>>
  /\ hpc' = "idle"
  /\ cur' = NoMsg
  /\ pending' = <<>>
  /\ UNCHANGED <<delivered, log, schema, store>>
  /\ UNCHANGED readerVars
  /\ UNCHANGED simVars

Next ==
  \/ init_db
  \/ main_connect
  \/ \E code \in ReasonCodes : on_connect(code)
  \/ \E p \in CorePayloads : Deliver(p)
  \/ on_message_begin
  \/ insert_execute
  \/ insert_commit
  \/ \E d \in Devices, n \in Limits : reader_fetch(d, n)
  \/ reader_close
  \/ restart

\* the whole system: the edge processor, a reader, restarts
Spec == Init /\ [][Next]_vars

NextIngest ==
  \/ init_db
  \/ main_connect
  \/ \E code \in ReasonCodes : on_connect(code)
  \/ \E p \in Payloads :
       inbox = <<>> /\ delivered < MaxIngestMsgs /\ Deliver(p)
  \/ on_message_begin
  \/ insert_execute
  \/ insert_commit

\* one life of the edge processor alone, on every payload of Payloads, each
\* delivered when the one before it has been taken
SpecIngest == Init /\ [][NextIngest]_vars

(* ------------------ the writer and the read-side tools ----------------- *)
\* accepted payloads, two of them with the ts and device of the scenario
ReadPayloads ==
  {Base(FloatV(500)), Base(FloatV(512)),
   [Base(FloatV(512)) EXCEPT !.ts = Str(T2)],
   [Base(FloatV(500)) EXCEPT !.device_id = Str(D2)]}
\* --limit / --last of the tools
ReadLimits == {1, MaxReadMsgs}
\* a connection of another process holds the shared lock of a SELECT
SharedHeld == reader = "reading" \/ lpc = "fetch"

\* conn.commit(), first half: the writer takes the pending lock, which
\* keeps new readers out, and waits for the shared locks, at most for the
\* timeout of sqlite3.connect
commit_lock ==
  /\ hpc = "commit"
  /\ hpc' = "committing"
  /\ UNCHANGED <<inbox, delivered, cur, log>>
  /\ UNCHANGED <<mainVars, dbVars, readerVars>>
  /\ UNCHANGED simVars

\* a commit that waits for the readers without a timeout
commit_write_blocking ==
  /\ hpc = "committing"
  /\ ~SharedHeld
  /\ store' = store \o pending
  /\ log' = Append(log, Info(cur.no))
  /\ pending' = <<>>
  /\ hpc' = "idle"
  /\ cur' = NoMsg
  /\ UNCHANGED <<inbox, delivered, schema>>
  /\ UNCHANGED <<mainVars, readerVars>>
  /\ UNCHANGED simVars

\* conn.commit(), second half: with no shared lock left the row is written;
\* with one still held when the timeout ends, "database is locked" is
\* raised, the transaction is rolled back and on_message prints the skip
commit_write ==
  /\ hpc = "committing"
  /\ IF SharedHeld
       THEN /\ store' = store
            /\ log' = Append(log, Warn(cur.no, E_Locked))
       ELSE /\ store' = store \o pending
            /\ log' = Append(log, Info(cur.no))
  /\ pending' = <<>>
  /\ hpc' = "idle"
  /\ cur' = NoMsg
  /\ UNCHANGED <<inbox, delivered, schema>>
  /\ UNCHANGED <<mainVars, readerVars>>
  /\ UNCHANGED simVars

\* multi_trend.py, plot.py, anomaly_summary.py and a rerun of
\* web_dashboard.py open the file with sqlite3's busy handler: while the
\* writer holds the pending lock their SELECT waits
CanRead == reader = "idle" /\ "telemetry" \in schema /\ hpc # "committing"

\* multi_trend.main: fetch_rows
trend_fetch(d, n) ==
  /\ CanRead
  /\ reader' = "reading"
  /\ query' = [tool |-> "multi_trend", device |-> d, limit |-> n]
  /\ view' = fetch_rows(store, d, n)
  /\ UNCHANGED <<lpc, panel>>
  /\ UNCHANGED <<mainVars, msgVars, dbVars>>
  /\ UNCHANGED simVars

\* plot.main: fetch_last_rows
plot_fetch(d, n, dedup_ts) ==
  /\ CanRead
  /\ reader' = "reading"
  /\ query' = [tool |-> IF dedup_ts THEN "plot_dedup" ELSE "plot",
               device |-> d, limit |-> n]
  /\ view' = fetch_last_rows(store, d, n, dedup_ts)
  /\ UNCHANGED <<lpc, panel>>
  /\ UNCHANGED <<mainVars, msgVars, dbVars>>
  /\ UNCHANGED simVars

\* web_dashboard: load_from_db
web_load(d, n) ==
  /\ CanRead
  /\ reader' = "reading"
  /\ query' = [tool |-> "web", device |-> d, limit |-> n]
  /\ view' \in load_from_db(store, d, n)
  /\ UNCHANGED <<lpc, panel>>
  /\ UNCHANGED <<mainVars, msgVars, dbVars>>
  /\ UNCHANGED simVars

\* anomaly_summary.main
summary_report(d) ==
  /\ CanRead
  /\ reader' = "reading"
  /\ query' = [tool |-> "anomaly_summary", device |-> d, limit |-> 0]
  /\ view' = <<anomaly_summary(store, d)>>
  /\ UNCHANGED <<lpc, panel>>
  /\ UNCHANGED <<mainVars, msgVars, dbVars>>
  /\ UNCHANGED simVars

\* render_layout that creates the table when it does not find it
live_open_creating(d, n) ==
  /\ lpc = "sleep"
  /\ schema' = {"telemetry"}
  /\ panel' = [kind |-> "waiting"]
  /\ UNCHANGED <<lpc, reader, view, query, store, pending>>
  /\ UNCHANGED <<mainVars, msgVars>>
  /\ UNCHANGED simVars

\* live_dashboard.render_layout up to the counts of fetch_snapshot: the
\* waiting panel when the database is not there, the error panel when a
\* query raises (sqlite3.connect(timeout=1) against the writer's lock)
live_open(d, n) ==
  /\ lpc = "sleep"
  /\ IF "telemetry" \notin schema
       THEN /\ panel' = [kind |-> "waiting"]
            /\ lpc' = "sleep"
       ELSE IF hpc = "committing"
       THEN /\ panel' = [kind |-> "error"]
            /\ lpc' = "sleep"
       ELSE /\ panel' = [kind |-> "fetching", device |-> d, last_n |-> n,
                         total_rows |-> total_rows(store, d),
                         anomaly_rows |-> anomaly_rows(store, d),
                         last_ts |-> last_ts(store, d),
                         dup_ts_count |-> dup_ts_count(store, d),
                         last_rows |-> <<>>, anomaly_rows_list |-> <<>>]
            /\ lpc' = "fetch"
  /\ UNCHANGED <<reader, view, query>>
  /\ UNCHANGED <<mainVars, msgVars, dbVars>>
  /\ UNCHANGED simVars

\* the row queries of fetch_snapshot and the return of render_layout; the
\* loop of main sleeps and renders again whatever the panel is
live_rows ==
  /\ lpc = "fetch"
  /\ IF hpc = "committing"
       THEN panel' = [kind |-> "error"]
       ELSE panel' = [panel EXCEPT
                        !.kind = "snapshot",
                        !.last_rows = last_rows(store, panel.device, panel.last_n),
                        !.anomaly_rows_list =
                           anomaly_rows_list(store, panel.device, panel.last_n)]
  /\ lpc' = "sleep"
  /\ UNCHANGED <<reader, view, query>>
  /\ UNCHANGED <<mainVars, msgVars, dbVars>>
  /\ UNCHANGED simVars

NextRead ==
  \/ init_db
  \/ main_connect
  \/ on_connect(0)
  \/ \E p \in ReadPayloads :
       inbox = <<>> /\ delivered < MaxReadMsgs /\ Deliver(p)
  \/ on_message_begin
  \/ insert_execute
  \/ commit_lock
  \/ commit_write
  \/ \E d \in Devices, n \in ReadLimits : trend_fetch(d, n)
  \/ \E d \in Devices, n \in ReadLimits, dedup_ts \in BOOLEAN :
       plot_fetch(d, n, dedup_ts)
  \/ \E d \in Devices \cup {AllDevices}, n \in ReadLimits : web_load(d, n)
  \/ \E d \in Devices \cup {AllDevices} : summary_report(d)
  \/ reader_close
  \/ \E n \in ReadLimits : live_open(D1, n)
  \/ live_rows

\* one life of the edge processor on a broker that accepts the connection,
\* with a one-shot read-side tool and the live dashboard (on its default
\* device, gh_01) running beside it
SpecRead == Init /\ [][NextRead]_vars

NextLock ==
  \/ init_db
  \/ main_connect
  \/ on_connect(0)
  \/ \E p \in ReadPayloads :
       inbox = <<>> /\ delivered < MaxReadMsgs /\ Deliver(p)
  \/ on_message_begin
  \/ insert_execute
  \/ commit_lock
  \/ commit_write
  \/ \E d \in Devices, n \in ReadLimits : trend_fetch(d, n)
  \/ reader_close
  \/ \E n \in ReadLimits : live_open(D1, n)
  \/ live_rows

\* the writer against the locks of the readers: one one-shot tool (they all
\* hold the same shared lock) and the live dashboard, with the edge
\* processor's handler running on: loop_forever calls on_message and every
\* statement of the handler returns or raises
SpecLock ==
  /\ Init /\ [][NextLock]_vars
  /\ WF_vars(on_message_begin) /\ WF_vars(insert_execute)
  /\ WF_vars(commit_lock) /\ WF_vars(commit_write)


(* ------------- the live dashboard on stores of many rows --------------- *)
\* the ts and device_id of the rows: two instants and the NULL that a NaN
\* ts is stored as, two devices
DupKeys == {<<t, d>> : t \in {Str(T1), Str(T2), None}, d \in Devices}
\* the store after the messages of keys were inserted, in that order
StoreOf(keys) ==
  [i \in 1..Len(keys) |->
     [rowid |-> i, ts |-> keys[i][1], device_id |-> Str(keys[i][2]),
      achp |-> FloatV(500), phr |-> FloatV(10), awwgv |-> FloatV(10),
      pdmrg |-> FloatV(10), is_anomaly |-> 0]]

\* the edge processor idle in its loop on a store of up to MaxDupRows rows
InitDup ==
  /\ pc = "loop"
  /\ threshold = DefaultThreshold
  /\ ctrl = "Connected"
  /\ connects = 1
  /\ rc = 0
  /\ inbox = <<>>
  /\ store \in {StoreOf(k) : k \in UNION {[1..n -> DupKeys] : n \in 0..MaxDupRows}}
  /\ delivered = Len(store)
  /\ hpc = "idle"
  /\ cur = NoMsg
  /\ schema = {"telemetry"}
  /\ pending = <<>>
  /\ reader = "idle"
  /\ view = <<>>
  /\ query = NoQuery
  /\ lpc = "sleep"
  /\ panel = NoPanel
  /\ sim = SimOff
  /\ published = <<>>
  /\ log = [i \in 1..Len(store) |-> Info(i)]
  /\ restarts = 0

NextDup ==
  \/ \E d \in Devices, n \in ReadLimits : live_open(d, n)
  \/ live_rows

\* the live dashboard rendering on such a store
SpecDup == InitDup /\ [][NextDup]_vars

(* ----------------------------- simulator ------------------------------- *)
REQUIRED_METRICS == <<"ACHP", "PHR", "AWWGV", "PDMRG">>
\* what iso_utc_now() returns
NowText == "2026-01-01T00:00:00Z"
\* str(raw).strip() == ""
Blank(text) == text \in {"", " "}

\* a row of csv.DictReader: the ts cell and the four metric cells, each a
\* text, or None where the line is short of the column
CsvRow(ts, m) == [ts |-> ts, m |-> m]
GoodRow == CsvRow(Str(T1), [k \in MetricNames |-> Str("51.2")])
BadCells == {Str("nan"), Str("1e999"), Str("abc"), Str(""), Str(" "), None}
TsCells == {Str("2025-01-01 00:00:01"), Str("yesterday"), Str("")}
CsvRows ==
  {GoodRow, [GoodRow EXCEPT !.m["PHR"] = Str(" 49.9 ")]}
  \cup {[GoodRow EXCEPT !.m[k] = c] : k \in {"ACHP", "PDMRG"}, c \in BadCells}
  \cup {[GoodRow EXCEPT !.ts = t] : t \in TsCells}

\* get_float: None for a missing or blank cell and for a text float()
\* rejects, else float(raw)
get_float(row, key) ==
  LET raw == row.m[key]
  IN IF raw = None THEN None
     ELSE IF Blank(raw.s) THEN None
     ELSE IF PyFloat(raw).ok THEN PyFloat(raw).v ELSE None

\* get_ts: the cell as it is when it ends in Z or has a "+", converted when
\* datetime.fromisoformat reads it, the clock when it is blank or unreadable
get_ts(row) ==
  LET c == row.ts
  IN IF c = None THEN Str(NowText)
     ELSE IF Blank(c.s) THEN Str(NowText)
     ELSE IF c.s = T1 \/ c.s = T2 THEN c
     ELSE IF c.s = "2025-01-01 00:00:01" THEN Str(T2)
     ELSE Str(NowText)

\* lines 162-172: the row has four metrics get_float returns a float for
Parseable(row) ==
  \A i \in 1..Len(REQUIRED_METRICS) : get_float(row, REQUIRED_METRICS[i]) # None

\* json.dumps of a float and json.loads of its text: a finite float comes
\* back as it was, nan is written NaN and an infinity Infinity, which
\* json.loads reads
Wire(v) ==
  CASE v.k = "float" -> FloatV(v.n)
    [] v.k = "nan" -> NaN
    [] v.k = "inf" -> IF v.n > 0 THEN Inf ELSE NegInf
    [] OTHER -> None

\* lines 178-185: the payload as the edge processor decodes it (its class
\* member is one on_message never reads)
SimPayload(row, device_id) ==
  Obj(get_ts(row), Str(device_id), Dict(4),
      [k \in MetricNames |-> Wire(get_float(row, k))])

\* the CSV files of the model: a header with the four metrics and 1 to
\* MaxCsvRows data rows
CsvFiles == UNION {[1..n -> CsvRows] : n \in 1..MaxCsvRows}

\* main up to line 149: the file is read, idx = 0, sent = 0
InitSim ==
  /\ pc = "start"
  /\ threshold = DefaultThreshold
  /\ ctrl = "Disconnected"
  /\ connects = 0
  /\ rc = -1
  /\ inbox = <<>>
  /\ delivered = 0
  /\ hpc = "idle"
  /\ cur = NoMsg
  /\ schema = {}
  /\ store = <<>>
  /\ pending = <<>>
  /\ reader = "idle"
  /\ view = <<>>
  /\ query = NoQuery
  /\ lpc = "sleep"
  /\ panel = NoPanel
  /\ sim \in [pc : {"run"}, rows_cache : CsvFiles, loop : BOOLEAN,
               max_rows : 0..MaxRowsArg, device_id : {D1}, idx : {0}, sent : {0}]
  /\ published = <<>>
  /\ log = <<>>
  /\ restarts = 0

edgeVars == <<mainVars, msgVars, dbVars, readerVars>>

\* the while loop goes on: sent < max_rows, and rows are left or --loop
Looping ==
  /\ sim.sent < sim.max_rows
  /\ sim.idx < Len(sim.rows_cache) \/ sim.loop

\* lines 150-158: the loop goes on and takes its next row, from the first
\* one again when --loop is set and the rows are used up
sim_next_row ==
  /\ sim.pc = "run"
  /\ Looping
  /\ LET i == IF sim.idx >= Len(sim.rows_cache) THEN 0 ELSE sim.idx
     IN sim' = [sim EXCEPT !.idx = i + 1, !.pc = "row"]
  /\ UNCHANGED published
  /\ UNCHANGED edgeVars

\* lines 160-190: the row is skipped (continue) or its payload published
sim_publish ==
  /\ sim.pc = "row"
  /\ LET row == sim.rows_cache[sim.idx]
     IN IF Parseable(row)
          THEN /\ published' = Append(published, SimPayload(row, sim.device_id))
               /\ sim' = [sim EXCEPT !.sent = @ + 1, !.pc = "run"]
          ELSE /\ published' = published
               /\ sim' = [sim EXCEPT !.pc = "run"]
  /\ UNCHANGED edgeVars

\* the loop ends (line 150 or the break of line 155), lines 192-194
sim_done ==
  /\ sim.pc = "run"
  /\ ~Looping
  /\ sim' = [sim EXCEPT !.pc = "done"]
  /\ UNCHANGED published
  /\ UNCHANGED edgeVars

NextSim ==
  \/ sim_next_row
  \/ sim_publish
  \/ sim_done

\* a run of the simulator on a CSV file
SpecSim == InitSim /\ [][NextSim]_vars
\* the same with the interpreter running on
SpecSimFair == SpecSim /\ WF_vars(NextSim)

(* ======================= properties of the code ======================= *)
\* this step is on_message taking the oldest message of the queue
Taking ==
  /\ hpc = "idle" /\ inbox # <<>> /\ pc = "loop"
  /\ inbox' = Tail(inbox)
  /\ delivered' = delivered /\ restarts' = restarts
\* this step is on_message returning
Returning ==
  /\ pc = "loop" /\ restarts' = restarts /\ delivered' = delivered
  /\ hpc' = "idle"
  /\ Taking \/ hpc # "idle"
\* the lines on_message printed for message no
LinesOf(no) == {i \in 1..Len(log) : log[i].no = no}
Inserted(no) == \E i \in LinesOf(no) : log[i].level = "DB"
Skipped(no) == \E i \in LinesOf(no) : log[i].level = "WARN"
\* the ACHP member of a payload, as metrics.get("ACHP") returns it
AchpOf(p) == MetricGet(GetDefault(p.metrics, Dict(0)), p.m, "ACHP")

\* C1: the row stored for an accepted payload has is_anomaly = 1 exactly
\* when the coerced ACHP is strictly greater than the configured threshold,
\* and 0 otherwise; ACHP equal to the threshold is stored as 0.
C1_AnomalyRule ==
  [][\A i \in (Len(store) + 1)..Len(store') :
       LET achp == to_float(AchpOf(cur.p)).v.n
       IN /\ cur # NoMsg
          /\ store'[i].achp = FloatV(achp)
          /\ (achp > threshold => store'[i].is_anomaly = 1)
          /\ (achp <= threshold => store'[i].is_anomaly = 0)]_vars
\* a row at the threshold stored as normal and a row above it as anomaly
C1_Witness ==
  /\ \E i \in 1..Len(store) :
       store[i].achp = FloatV(threshold) /\ store[i].is_anomaly = 0
  /\ \E i \in 1..Len(store) :
       store[i].achp.n > threshold /\ store[i].is_anomaly = 1

\* the texts that spell a number for float()
NumericTexts == {"51.2", " 49.9 ", "nan", "-inf", "1e999"}
\* a metric value that is no number (not coercible to one), or is NaN or
\* infinite
BadMetricValue(v) ==
  \/ v.k \in {"absent", "none", "list", "dict"}
  \/ v.k = "str" /\ v.s \notin NumericTexts
  \/ v.k \in {"nan", "inf"}
  \/ v.k = "str" /\ v.s \in {"nan", "-inf", "1e999"}
\* a JSON object without ts, device_id or metrics, or with a bad metric
LacksFieldOrMetric(p) ==
  /\ p.enc = "utf8" /\ p.top = "object"
  /\ \/ p.ts.k = "absent"
     \/ p.device_id.k = "absent"
     \/ p.metrics.k = "absent"
     \/ p.metrics.k = "dict" /\ \E key \in MetricNames : BadMetricValue(p.m[key])

\* C2: for a payload that lacks device_id, ts or metrics, or has a metric
\* that is not coercible to a number, NaN or infinite, on_message leaves
\* the store unchanged (no row, no open transaction), prints the skip line
\* and returns with the loop running, so the next message is processed.
C2_RejectedLeavesStore ==
  [][(Taking /\ LacksFieldOrMetric(Head(inbox).p)) =>
       /\ store' = store /\ pending' = <<>> /\ schema' = schema
       /\ hpc' = "idle" /\ pc' = "loop" /\ ctrl' = "Connected"
       /\ Len(log') = Len(log) + 1
       /\ log'[Len(log')].no = Head(inbox).no
       /\ log'[Len(log')].level = "WARN"]_vars
\* a message was skipped for a NaN/Inf metric, nothing was stored for it,
\* and the message after it was inserted
C2_Witness ==
  /\ \E i \in 1..Len(log) : log[i] = Warn(1, E_NaNInf)
  /\ Inserted(2) /\ Len(store) = 1


\* a valid payload: ts and device_id non-empty strings, metrics an object
\* whose four members are finite numbers
FiniteNumber(v) == v.k \in {"int", "float"}
ValidPayload(p) ==
  /\ p.enc = "utf8" /\ p.top = "object"
  /\ p.ts.k = "str" /\ p.ts.s # ""
  /\ p.device_id.k = "str" /\ p.device_id.s # ""
  /\ p.metrics.k = "dict"
  /\ \A key \in MetricNames : FiniteNumber(p.m[key])

\* C4: while the controller is connected and the store raises no error (the
\* table is there, no reader holds its lock at the commit), a valid
\* message goes through validation, INSERT and commit and adds exactly one
\* row; no step adds more than one row, and only a commit adds one.
C4_ValidOneRow ==
  [][/\ (Taking /\ ValidPayload(Head(inbox).p)) =>
          /\ hpc' = "insert" /\ cur'.no = Head(inbox).no
          /\ cur'.p = Head(inbox).p /\ store' = store
     /\ (hpc = "insert" /\ hpc' # hpc /\ restarts' = restarts
           /\ ValidPayload(cur.p)) =>
          /\ hpc' = "commit" /\ Len(pending') = 1 /\ store' = store
          /\ cur' = cur
     /\ (hpc = "commit" /\ hpc' # hpc /\ restarts' = restarts
           /\ ValidPayload(cur.p) /\ reader # "reading") =>
          /\ Len(store') = Len(store) + 1
          /\ log' = Append(log, Info(cur.no))
     /\ Len(store') <= Len(store) + 1
     /\ Len(store') > Len(store) => (hpc = "commit" /\ hpc' = "idle")]_vars
\* two valid messages were handled and the store holds two rows
C4_Witness ==
  /\ Len(store) = 2 /\ Inserted(1) /\ Inserted(2)
  /\ hpc = "idle" /\ inbox = <<>>

\* a payload whose ts or device_id is missing or empty, or whose metrics
\* is missing or no object
LacksField(p) ==
  /\ p.enc = "utf8" /\ p.top = "object"
  /\ \/ p.ts.k \in {"absent", "none"} \/ p.ts = Str("")
     \/ p.device_id.k \in {"absent", "none"} \/ p.device_id = Str("")
     \/ p.metrics.k # "dict"

\* C10: a payload with a missing or empty ts, a missing or empty
\* device_id, or with metrics absent or not a mapping is skipped with the
\* missing-field error ("missing ts/device_id/metrics") and not with an
\* invalid-metric error; this includes an absent metrics key.
C10_MissingFieldError ==
  [][(Taking /\ LacksField(Head(inbox).p)) =>
       log' = Append(log, Warn(Head(inbox).no, E_Missing))]_vars


(* ------------------- the whole system (Spec) --------------------------- *)
\* C3: no step of on_message, failing or not, takes the controller out of
\* Connected or ends the loop, and on_message returns with its line
\* printed.  A per-message failure, a validation rejection or an error
\* raised by insert_telemetry (a bind error, a lock timeout), leaves the
\* handler idle and the store as it was; and with
\* failures behind it, a valid message is still validated and handed to
\* the insert, and its commit appends its row when no reader holds the lock.
C3_FailureIsolated ==
  [][/\ (Taking \/ (hpc # "idle" /\ hpc' # hpc /\ restarts' = restarts)) =>
          /\ ctrl' = "Connected" /\ pc' = "loop"
          /\ hpc' = "idle" => Len(log') = Len(log) + 1
     /\ (Len(log') > Len(log) /\ log'[Len(log')].level = "WARN") =>
          /\ ctrl' = "Connected" /\ pc' = "loop"
          /\ hpc' = "idle" /\ pending' = <<>> /\ store' = store
     /\ (Taking /\ ValidPayload(Head(inbox).p)) =>
          /\ hpc' = "insert" /\ cur'.no = Head(inbox).no
     /\ (hpc = "insert" /\ hpc' # hpc /\ restarts' = restarts
           /\ ValidPayload(cur.p)) => hpc' = "commit"
     /\ (hpc = "commit" /\ hpc' # hpc /\ restarts' = restarts
           /\ reader # "reading") =>
          /\ Len(store') = Len(store) + 1
          /\ log' = Append(log, Info(cur.no))
          /\ ctrl' = "Connected" /\ pc' = "loop"]_vars
\* a rejected message, then one whose commit timed out on the lock, then a
\* valid one that was inserted, the controller still connected
C3_Witness ==
  /\ Len(log) = 3
  /\ log[1] = Warn(1, E_Float)
  /\ log[2] = Warn(2, E_Locked)
  /\ log[3] = Info(3)
  /\ Len(store) = 1
  /\ ctrl = "Connected" /\ pc = "loop"

\* every check of on_message passes on the payload
Checked(p) ==
  /\ p.enc = "utf8" /\ p.top = "object"
  /\ Truthy(Get(p.ts)) /\ Truthy(Get(p.device_id))
  /\ p.metrics.k \in {"dict", "absent"}
  /\ \A key \in MetricNames :
       to_float(MetricGet(GetDefault(p.metrics, Dict(0)), p.m, key)).ok
\* the columns fetch_rows selects of a stored row
Selected(r) ==
  [ts |-> r.ts, achp |-> r.achp, phr |-> r.phr, awwgv |-> r.awwgv,
   pdmrg |-> r.pdmrg, is_anomaly |-> r.is_anomaly]

\* C5: a message is fully processed or fully dropped.  insert_telemetry is
\* reached only with a payload that passed every check; the writer's
\* transaction holds one whole row and only between INSERT and commit; and
\* a concurrent reader sees committed rows only, never the row of the open
\* transaction.
C5_AllOrNothing ==
  /\ hpc \in {"insert", "commit"} => (cur # NoMsg /\ Checked(cur.p))
  /\ pending # <<>> <=> hpc = "commit"
  /\ Len(pending) <= 1
  /\ \A i \in 1..Len(pending) :
       /\ pending[i].ts = BindText(cur.args.ts).v
       /\ pending[i].device_id = BindText(cur.args.device_id).v
       /\ pending[i].achp = cur.args.achp /\ pending[i].phr = cur.args.phr
       /\ pending[i].awwgv = cur.args.awwgv
       /\ pending[i].pdmrg = cur.args.pdmrg
       /\ \A key \in {"achp", "phr", "awwgv", "pdmrg"} :
            pending[i][key].k = "float"
       /\ pending[i].is_anomaly = cur.args.is_anomaly
  /\ \A i \in 1..Len(view) :
       \E j \in 1..Len(store) : view[i] = Selected(store[j])
\* a reader holds rows it read while the writer's transaction is open
C5_Witness ==
  /\ reader = "reading" /\ Len(view) >= 1
  /\ hpc = "commit" /\ Len(pending) = 1
  /\ \E i \in 1..Len(log) : log[i].level = "WARN"

\* C6: the store is append-only under init_db, insert_telemetry and
\* on_message: every step keeps every row there was, with all its columns
\* (is_anomaly among them), and the number of rows never decreases.
C6_AppendOnly ==
  [][/\ Len(store') >= Len(store)
     /\ \A i \in 1..Len(store) : store'[i] = store[i]]_vars
\* init_db has run again on a store with rows, under a threshold that would
\* classify one of them differently
C6_Witness ==
  /\ restarts = 1 /\ pc = "ready"
  /\ \E i \in 1..Len(store) :
       store[i].is_anomaly # classify(store[i].achp, threshold)

\* C7: init_db is idempotent: run again on the same file (at a process
\* start) it raises no error, leaves exactly one telemetry table and every
\* row as it was.
C7_InitIdempotent ==
  [][(pc = "start" /\ pc' # pc) =>
       /\ pc' = "ready"
       /\ schema' = {"telemetry"} /\ Cardinality(schema') = 1
       /\ store' = store /\ pending' = pending]_vars
\* init_db has run a second time on a file that held the table and rows
C7_Witness ==
  /\ restarts = 1 /\ pc = "ready"
  /\ schema = {"telemetry"} /\ Len(store) >= 2

\* C8: each row's rowid is greater than that of every row appended before
\* it, and fetch_rows lists rows of one ts in the order they were appended.
C8_RowidOrder ==
  /\ \A i, j \in 1..Len(store) : i < j => store[i].rowid < store[j].rowid
  /\ \A d \in Devices, n \in Limits :
       LET r == FetchOrder(store, d, n)
           Pos(row) == CHOOSE k \in 1..Len(store) : store[k] = row
       IN \A i, j \in 1..Len(r) :
            (i < j /\ r[i].ts = r[j].ts) => Pos(r[i]) < Pos(r[j])
\* two rows of one device with the same ts are stored
C8_Witness ==
  \E i, j \in 1..Len(store) :
    /\ i < j /\ store[i].ts = store[j].ts
    /\ store[i].device_id = store[j].device_id

\* C9: messages are handled one at a time in the order of delivery: the
\* printed lines, one per handled message, are in the order of the message
\* numbers, the message being handled is newer than all of them and older
\* than those waiting, and the rows are those of the inserted lines, in
\* that order.
C9_DeliveryOrder ==
  /\ \A i, j \in 1..Len(log) : i < j => log[i].no < log[j].no
  /\ \A i \in 1..Len(log) : hpc # "idle" => log[i].no < cur.no
  /\ \A i \in 1..Len(inbox) :
       /\ hpc # "idle" => cur.no < inbox[i].no
       /\ \A j \in 1..Len(log) : log[j].no < inbox[i].no
       /\ \A j \in 1..Len(inbox) : i < j => inbox[i].no < inbox[j].no
  /\ hpc = "idle" <=> cur = NoMsg
  /\ Len(store) = Cardinality({i \in 1..Len(log) : log[i].level = "DB"})
\* message 1 is stored, message 2 is at its commit while message 3 waits
C9_Witness ==
  /\ Len(store) = 1 /\ Inserted(1)
  /\ hpc = "commit" /\ cur.no = 2
  /\ Len(inbox) = 1 /\ inbox[1].no = 3


(* ------------------- validation and storage (SpecIngest) --------------- *)
\* a payload whose fields pass the check of line 48 and one of whose four
\* metrics is absent, not coercible to a number, NaN or infinite
HasBadMetric(p) ==
  /\ p.enc = "utf8" /\ p.top = "object"
  /\ Truthy(Get(p.ts)) /\ Truthy(Get(p.device_id))
  /\ p.metrics.k = "dict"
  /\ \E key \in MetricNames : BadMetricValue(p.m[key])

\* C11: a payload with an absent, non-numeric, NaN or infinite metric is
\* skipped with a line that names an offending metric (ACHP, PHR, AWWGV or
\* PDMRG).
C11_NamesMetric ==
  [][(Taking /\ HasBadMetric(Head(inbox).p)) =>
       /\ Len(log') = Len(log) + 1
       /\ log'[Len(log')].level = "WARN"
       /\ \E key \in MetricNames :
            /\ BadMetricValue(Head(inbox).p.m[key])
            /\ Mentions(log'[Len(log')].text, key)]_vars

\* bytes that are not UTF-8, text that is not JSON, or a JSON value that is
\* no object
Malformed(p) == p.enc # "utf8" \/ p.top # "object"
FieldOrMetricErrors == {E_Missing, E_None, E_NaNInf, E_Float, E_Overflow}

\* C12: a payload that cannot be decoded into a JSON object is skipped as
\* malformed (with a decode error, not a missing-field or metric error):
\* no row, no open transaction, on_message returns, the controller stays
\* Connected and the loop runs.
C12_MalformedSkipped ==
  [][(Taking /\ Malformed(Head(inbox).p)) =>
       /\ store' = store /\ pending' = <<>>
       /\ hpc' = "idle" /\ pc' = "loop" /\ ctrl' = "Connected"
       /\ Len(log') = Len(log) + 1
       /\ log'[Len(log')].no = Head(inbox).no
       /\ log'[Len(log')].level = "WARN"
       /\ log'[Len(log')].text \notin FieldOrMetricErrors]_vars
\* bad UTF-8 was skipped, nothing stored for it, the next message inserted
C12_Witness ==
  /\ Len(log) = 2 /\ log[1] = Warn(1, E_Utf8) /\ log[2] = Info(2)
  /\ Len(store) = 1 /\ ctrl = "Connected"

MetricColumns == {"achp", "phr", "awwgv", "pdmrg"}
\* C13: every row of the store, and of the writer's open transaction, has
\* its four metric columns set to finite numbers: none is NULL, NaN or
\* infinite, so no row has only some of its metrics validated.
C13_FiniteMetrics ==
  \A i \in 1..Len(store \o pending) :
    \A c \in MetricColumns : (store \o pending)[i][c].k = "float"
\* a NaN metric and a non-numeric one were skipped and a row is stored
C13_Witness ==
  /\ \E i \in 1..Len(log) : log[i].text = E_NaNInf
  /\ Len(store) = 1

NonEmptyString(v) == v.k = "str" /\ v.s # ""
\* C14: every stored row has a non-empty string ts and device_id, and a
\* payload whose ts or device_id is absent, null, empty or not a string
\* produces no row.
C14_StringIds ==
  [][Len(store') > Len(store) =>
       /\ cur # NoMsg
       /\ NonEmptyString(cur.p.ts) /\ NonEmptyString(cur.p.device_id)
       /\ \A i \in 1..Len(store') :
            NonEmptyString(store'[i].ts) /\ NonEmptyString(store'[i].device_id)]_vars

\* the float a valid metric is coerced to
Coerced(v) == PyFloat(v).v
\* the row fetch_rows returns for a valid payload under a threshold
ReadBack(p, t) ==
  [ts |-> p.ts, achp |-> Coerced(p.m["ACHP"]), phr |-> Coerced(p.m["PHR"]),
   awwgv |-> Coerced(p.m["AWWGV"]), pdmrg |-> Coerced(p.m["PDMRG"]),
   is_anomaly |-> IF Coerced(p.m["ACHP"]).n > t THEN 1 ELSE 0]
Occurrences(rows, r) == Cardinality({i \in 1..Len(rows) : rows[i] = r})

\* C16: round trip.  The row a valid reading adds is read back by
\* fetch_rows under the reading's device_id with its ts as it came, its
\* four metrics equal to the coerced inputs and is_anomaly as classified
\* at ingestion.
C16_RoundTrip ==
  [][(Len(store') > Len(store) /\ cur # NoMsg /\ ValidPayload(cur.p)) =>
       LET d == cur.p.device_id.s
           want == ReadBack(cur.p, threshold)
       IN /\ store'[Len(store')].ts = cur.p.ts
          /\ store'[Len(store')].device_id = cur.p.device_id
          /\ Occurrences(fetch_rows(store', d, Len(store')), want)
               = Occurrences(fetch_rows(store, d, Len(store)), want) + 1]_vars
\* the reading ACHP=51.2, PHR=3.0, AWWGV=0.5, PDMRG=10 under threshold 50.0
\* is read back with is_anomaly = 1
C16_Witness ==
  /\ threshold = DefaultThreshold
  /\ \E i \in 1..Len(fetch_rows(store, D1, MaxMsgs)) :
       fetch_rows(store, D1, MaxMsgs)[i] =
         [ts |-> Str(T1), achp |-> FloatV(512), phr |-> FloatV(30),
          awwgv |-> FloatV(5), pdmrg |-> FloatV(100), is_anomaly |-> 1]

\* the rows of one device and ts
SameKey(rows, ts, dev) ==
  {i \in 1..Len(rows) : rows[i].ts = ts /\ rows[i].device_id = dev}

\* C17: no write-time deduplication.  A valid message whose device_id and
\* ts are those of a stored row is inserted like any other: the INSERT
\* succeeds and the commit adds one more row for that (device_id, ts).
C17_NoDedup ==
  [][/\ (hpc = "insert" /\ hpc' # hpc /\ restarts' = restarts
           /\ ValidPayload(cur.p)
           /\ SameKey(store, cur.p.ts, cur.p.device_id) # {}) =>
          hpc' = "commit" /\ Len(pending') = 1
     /\ (hpc = "commit" /\ hpc' # hpc /\ restarts' = restarts
           /\ ValidPayload(cur.p) /\ reader # "reading") =>
          Cardinality(SameKey(store', cur.p.ts, cur.p.device_id))
            = Cardinality(SameKey(store, cur.p.ts, cur.p.device_id)) + 1]_vars
\* two rows of one device and ts with the same metrics
C17_Witness ==
  /\ Len(store) = 2
  /\ [store[1] EXCEPT !.rowid = 0] = [store[2] EXCEPT !.rowid = 0]


(* ------------------- connection handling (Spec) ------------------------ *)
\* C15: the subscription is made only by an on_connect with reason code 0.
\* After a connection attempt that fails no subscription exists: no message
\* is delivered, no handler runs, and nothing is stored or logged until a
\* later on_connect succeeds.
C15_SubscribeOnSuccess ==
  [][/\ (ctrl = "Disconnected" /\ ctrl' = "Connected") =>
          rc' = 0 /\ connects' = connects + 1
     /\ (connects' = connects + 1 /\ rc' # 0) =>
          /\ ctrl' = ctrl
          /\ inbox' = inbox /\ store' = store /\ log' = log
     /\ ctrl = "Disconnected" =>
          /\ inbox = <<>> /\ hpc = "idle"
          /\ delivered' = delivered /\ inbox' = inbox
          /\ store' = store /\ log' = log]_vars
\* a refused connection, then an accepted one, then a row stored
C15_Witness ==
  /\ connects = 2 /\ rc = 0 /\ ctrl = "Connected" /\ restarts = 0
  /\ Len(store) >= 1


(* ------------------- the read-side tools (SpecRead) -------------------- *)
\* the newest limit rows of a device, newest first, later rowid first among
\* the rows of one ts
NewestFirst(rows, device_id, limit, cols) ==
  Project(Limit(SortDesc(rows, Mine(rows, device_id)), limit), cols)
\* this step is a one-shot tool running its query
Querying(tool) == reader = "idle" /\ reader' = "reading" /\ query'.tool = tool

\* C18: every query for the most recent N rows (the live dashboard's
\* fetch_snapshot, plot's fetch_last_rows, the web dashboard's load_from_db)
\* returns the N newest rows by (ts DESC, rowid DESC) in that order: of the
\* rows of one ts the later-appended is selected and listed first.
C18_NewestFirst ==
  [][/\ Querying("plot") =>
          view' = NewestFirst(store, query'.device, query'.limit,
                              {"ts", "achp", "is_anomaly"})
     /\ Querying("web") =>
          view' = NewestFirst(store, query'.device, query'.limit,
                              {"ts", "device_id", "achp", "phr", "awwgv",
                               "pdmrg", "is_anomaly"})
     /\ (lpc = "fetch" /\ panel'.kind = "snapshot") =>
          panel'.last_rows =
            NewestFirst(store, panel.device, panel.last_n,
                        {"ts", "achp", "phr", "awwgv", "pdmrg", "is_anomaly"})]_vars

\* C19: the read-side tools never write: a step of anomaly_summary, the
\* live dashboard, plot, multi_trend or the web dashboard leaves the rows,
\* the open transaction and the schema as they were.
C19_ReadersNeverWrite ==
  [][readerVars' # readerVars => UNCHANGED <<schema, store, pending>>]_vars
\* the live dashboard shows a snapshot of stored rows while the web
\* dashboard has loaded them
C19_Witness ==
  /\ panel.kind = "snapshot" /\ panel.total_rows >= 1
  /\ reader = "reading" /\ query.tool = "web" /\ Len(view) >= 1
  /\ Len(store) = MaxReadMsgs

\* a row of a snapshot is a committed row
Committed(r) ==
  \E j \in 1..Len(store) : \A c \in DOMAIN r : r[c] = store[j][c]
\* the writer and the dashboard can always take their next step
NeverStuck ==
  /\ hpc = "insert" => ENABLED insert_execute
  /\ hpc = "commit" => ENABLED commit_lock
  /\ hpc = "committing" => ENABLED commit_write
  /\ (hpc = "idle" /\ pc = "loop" /\ inbox # <<>>) => ENABLED on_message_begin
  /\ lpc = "fetch" => ENABLED live_rows
  /\ lpc = "sleep" => ENABLED (\E n \in ReadLimits : live_open(D1, n))
  /\ panel.kind = "snapshot" =>
       \A i \in 1..Len(panel.last_rows) : Committed(panel.last_rows[i])
\* what a commit and a render against the lock do
LockOutcome ==
  /\ (hpc = "committing" /\ hpc' # hpc) =>
       /\ hpc' = "idle" /\ pending' = <<>>
       /\ ctrl' = "Connected" /\ pc' = "loop"
       /\ \/ store' = store \o pending /\ log' = Append(log, Info(cur.no))
          \/ /\ SharedHeld /\ store' = store
             /\ log' = Append(log, Warn(cur.no, E_Locked))
  /\ (hpc = "committing" /\ panel' # panel) =>
       /\ panel'.kind = "error" /\ lpc' = "sleep"
       /\ UNCHANGED <<schema, store, pending, hpc>>
  /\ Len(store') >= Len(store) /\ SubSeq(store', 1, Len(store)) = store

\* C20: readers never block the writer for good and never corrupt the
\* store.  The writer's next statement can always run, a commit ends in
\* the row written or in "database is locked" and the handler returns, so
\* every message taken is finished; the live dashboard that meets the lock
\* shows the error panel and renders again; a snapshot holds committed
\* rows only.
C20_ReadersDontBlock ==
  /\ []NeverStuck
  /\ [][LockOutcome]_vars
  /\ (hpc # "idle") ~> (hpc = "idle")
\* a commit failed on a reader's lock, the dashboard showed the error
\* panel, and a later message was stored
C20_Witness ==
  /\ \E i \in 1..Len(log) : log[i] = Warn(1, E_Locked)
  /\ Len(store) = 1 /\ store[1].rowid = 1 /\ Len(log) = 2
  /\ panel.kind = "error"


(* ----------------------- the log of on_message (Spec) ------------------ *)
\* C21: each invocation of on_message prints exactly one line: the
\* "inserted" line when its row was stored, the skip line when the message
\* was rejected or the insert failed; never none, never both, and nothing
\* is printed by a step that is not the handler returning.
C21_OneLine ==
  [][/\ Returning =>
          /\ Len(log') = Len(log) + 1
          /\ SubSeq(log', 1, Len(log)) = log
          /\ log'[Len(log')].no = (IF Taking THEN Head(inbox).no ELSE cur.no)
          /\ log'[Len(log')].level \in {"DB", "WARN"}
          /\ log'[Len(log')].level = "DB" <=> Len(store') = Len(store) + 1
     /\ ~Returning => log' = log
     /\ \A no \in 1..delivered' :
          Cardinality({i \in 1..Len(log') : log'[i].no = no}) <= 1]_vars
\* three messages handled, three lines: one inserted, one rejected by the
\* validation, one failed at the commit
C21_Witness ==
  /\ delivered = 3 /\ inbox = <<>> /\ hpc = "idle" /\ Len(log) = 3
  /\ restarts = 0
  /\ \E i \in 1..3 : log[i].level = "DB"
  /\ \E i \in 1..3 : log[i].text = E_Float
  /\ \E i \in 1..3 : log[i].text = E_Locked


(* -------------------- the rule's inputs (SpecIngest) ------------------- *)
\* C22: the anomaly flag depends on the ACHP value and the threshold only:
\* under one threshold, two rows with the same ACHP have the same
\* is_anomaly, whatever their other metrics, ts and device_id are and
\* whatever was stored before them.
C22_AchpOnly ==
  LET rows == store \o pending
  IN \A i, j \in 1..Len(rows) :
       rows[i].achp = rows[j].achp => rows[i].is_anomaly = rows[j].is_anomaly
\* two rows of one ACHP that differ in PHR, AWWGV and PDMRG, or in
\* device_id
C22_Witness ==
  /\ Len(store) = 2
  /\ store[1].achp = store[2].achp /\ store[1].is_anomaly = 1
  /\ \/ /\ store[1].phr # store[2].phr /\ store[1].awwgv # store[2].awwgv
        /\ store[1].pdmrg # store[2].pdmrg
     \/ store[1].device_id # store[2].device_id


(* -------------------- the duplicate count (SpecDup) -------------------- *)
\* C23: the live dashboard's duplicate-timestamp count of a device is the
\* number of the device's rows minus the number of distinct ts among them,
\* and 0 when the device has no rows or no ts twice.
C23_DupCount ==
  [][(lpc = "sleep" /\ lpc' = "fetch") =>
       LET mine == {i \in 1..Len(store) : store[i].device_id = Str(panel'.device)}
           distinct == {store[i].ts : i \in mine}
       IN /\ panel'.dup_ts_count = Cardinality(mine) - Cardinality(distinct)
          /\ Cardinality(distinct) = Cardinality(mine) => panel'.dup_ts_count = 0]_vars
\* four rows of the device, two ts, each stored twice: the count is 2
C23_Witness ==
  /\ panel.kind = "snapshot" /\ panel.device = D1
  /\ panel.total_rows = 4 /\ panel.dup_ts_count = 2
  /\ \E i, j \in 1..Len(store) : store[i].ts # store[j].ts
  /\ \A i \in 1..Len(store) :
       Cardinality({j \in 1..Len(store) : store[j].ts = store[i].ts}) = 2


(* ------------------------ the simulator (SpecSim) ---------------------- *)
\* C24: the simulator publishes no row one of whose metrics float() cannot
\* read, and every payload it publishes has a non-empty ts and four metrics
\* that pass the edge processor's to_float, so the edge processor skips
\* none of them.
C24_PublishedAccepted ==
  [][/\ (Len(published') > Len(published)) =>
          LET row == sim.rows_cache[sim.idx]
          IN \A k \in MetricNames :
               row.m[k] # None /\ PyFloat(row.m[k]).ok
     /\ \A i \in 1..Len(published') :
          /\ NonEmptyString(published'[i].ts)
          /\ \A k \in MetricNames : to_float(published'[i].m[k]).ok
          /\ \A t \in Thresholds : preprocess(published'[i], t).ok]_vars

\* C25: the publish loop ends, with at most max_rows messages published:
\* without --loop after one pass over the rows, with --loop after exactly
\* max_rows messages, on every non-empty CSV file.
C25_Terminates ==
  /\ [](sim.sent <= sim.max_rows /\ Len(published) = sim.sent)
  /\ [](sim.pc = "done" =>
          IF sim.loop THEN sim.sent = sim.max_rows
          ELSE sim.idx <= Len(sim.rows_cache) /\ sim.sent <= sim.idx)
  /\ <>(sim.pc = "done")

\* C26: in every run of the edge processor init_db has completed before
\* the connection is attempted, so the table telemetry exists whenever
\* on_message calls insert_telemetry; the schema is created at most once
\* per database file: a step changes it only from the empty schema, in
\* init_db, and init_db of a later run leaves schema and rows as they are.
C26_InitBeforeConnect ==
  [][/\ (pc # "loop" /\ pc' = "loop") => "telemetry" \in schema
     /\ (pc = "ready" /\ pc' # "ready") => "telemetry" \in schema
     /\ hpc \in {"insert", "commit"} => "telemetry" \in schema
     /\ schema' # schema =>
          /\ schema = {}
          /\ schema' = {"telemetry"}
          /\ pc = "start" /\ pc' = "ready"
          /\ hpc = "idle" /\ hpc' = "idle"
     /\ (pc = "start" /\ pc' # "start") => store' = store]_vars
\* a second run on the same file: init_db ran again, the rows of the first
\* run are kept and on_message is about to call insert_telemetry
C26_Witness ==
  /\ restarts = 1
  /\ pc = "loop"
  /\ hpc = "insert"
  /\ Len(store) >= 1
  /\ schema = {"telemetry"}

=============================================================================
